---- MODULE Spec2Model ----
(***************************************************************************)
(* Model of ble-mqtt-bridge.py: the MQTT command router                    *)
(* (CommandThread.process_message), the per-device command executor        *)
(* (BLEConnection.process_commands) and the semaphores that arbitrate the  *)
(* radio between discovery scans and device sessions.                      *)
(*                                                                         *)
(* Text values (topic segments, addresses, names, uuids, handle strings)   *)
(* are sequences of one-character strings, so that str.lower(), int(s, 0)  *)
(* and "{:02x}".format(n) are computed rather than assumed.                *)
(***************************************************************************)
EXTENDS Integers, Sequences, FiniteSets, TLC

\* ------------------------------------------------------------------ bounds

\* External messages the bus delivers to on_message in one run.
MaxMessages == 3
\* Longest command list of a device request.
MaxCommands == 2
\* Largest retry budget a device request carries in its tries field.
MaxTries == 3

\* pool size: ThreadPoolExecutor(max_workers=2)
bt_thread_pool == 2
Workers == 1..bt_thread_pool

\* ------------------------------------------------------------------- text

\* Python None / a missing dict key, for a text field and for an int field.
NoText == <<>>
NoInt == -1

UpperChars == <<"A","B","C","D","E","F","G","H","I","J","K","L","M",
                "N","O","P","Q","R","S","T","U","V","W","X","Y","Z">>
LowerChars == <<"a","b","c","d","e","f","g","h","i","j","k","l","m",
                "n","o","p","q","r","s","t","u","v","w","x","y","z">>

LowerChar(c) ==
    IF \E k \in 1..Len(UpperChars) : UpperChars[k] = c
    THEN LowerChars[CHOOSE k \in 1..Len(UpperChars) : UpperChars[k] = c]
    ELSE c

\* str.lower()
lower(s) == [k \in 1..Len(s) |-> LowerChar(s[k])]

HexDigits == <<"0","1","2","3","4","5","6","7","8","9","a","b","c","d","e","f">>

DigitValue(c) ==
    IF \E k \in 1..Len(HexDigits) : HexDigits[k] = LowerChar(c)
    THEN (CHOOSE k \in 1..Len(HexDigits) : HexDigits[k] = LowerChar(c)) - 1
    ELSE 99

RECURSIVE DigitsValue(_, _, _)
\* value of the digit string s in the given base, read after the prefix acc
DigitsValue(s, base, acc) ==
    IF s = <<>> THEN acc
    ELSE DigitsValue(Tail(s), base, acc * base + DigitValue(Head(s)))

ValidDigits(s, base) ==
    /\ Len(s) > 0
    /\ \A k \in 1..Len(s) : DigitValue(s[k]) < base

\* int(s, 0): the base is taken from the literal's prefix; NoInt stands for
\* the ValueError an invalid literal raises.
ParseInt(s) ==
    LET pre == IF Len(s) >= 2 THEN <<s[1], LowerChar(s[2])>> ELSE <<>>
        base == IF pre = <<"0","x">> THEN 16
                ELSE IF pre = <<"0","o">> THEN 8
                ELSE IF pre = <<"0","b">> THEN 2
                ELSE 10
        body == IF base = 10 THEN s ELSE SubSeq(s, 3, Len(s))
    IN  IF ~ValidDigits(body, base) THEN NoInt
        ELSE IF base = 10 /\ Len(body) > 1 /\ body[1] = "0"
                 /\ \E k \in 1..Len(body) : body[k] # "0" THEN NoInt
        ELSE DigitsValue(body, base, 0)

RECURSIVE HexText(_)
HexText(n) ==
    IF n < 16 THEN <<HexDigits[n + 1]>>
    ELSE HexText(n \div 16) \o <<HexDigits[(n % 16) + 1]>>

\* "{:02x}".format(n)
FormatHex02(n) == IF n < 16 THEN <<"0">> \o HexText(n) ELSE HexText(n)

\* handle == dev_char.get('uuid'): a Python int never equals a str (or None)
IntEqualsText(h, t) == FALSE

\* --------------------------------------------------------------- registry

T_scan == <<"s","c","a","n">>
T_alias == <<"L","r">>
T_mac == <<"F","0">>
T_battery == <<"b","a","t">>
T_temp == <<"t","m","p">>
T_uuid1 == <<"2","a","1","9">>
T_uuid2 == <<"2","a","6","e">>
T_handle1 == <<"0","x","1","0">>
T_bad == <<"z","z">>
T_all == <<"a","l","l">>

\* config/ble-mqtt-conf.json "knownDevices": one registered device whose
\* catalog has a fully described characteristic and one without a handle.
KNOWN_DEVICES ==
    << [name |-> T_alias, mac |-> T_mac,
        characteristics |->
            << [name |-> T_battery, uuid |-> T_uuid1, handle |-> T_handle1],
               [name |-> T_temp, uuid |-> T_uuid2, handle |-> NoText] >>] >>

\* BLEConnection.__init__: the last registry entry whose name matches
\* case-insensitively decides _mac and _deviceInfo (0 stands for None).
BLEConnection(mac) ==
    LET hits == {k \in 1..Len(KNOWN_DEVICES) :
                    lower(mac) = lower(KNOWN_DEVICES[k].name)}
        k == IF hits = {} THEN 0
             ELSE CHOOSE x \in hits : \A y \in hits : y <= x
    IN  [mac |-> IF k = 0 THEN mac ELSE lower(KNOWN_DEVICES[k].mac),
         deviceInfo |-> k,
         name |-> IF k = 0 THEN lower(mac) ELSE lower(KNOWN_DEVICES[k].name)]

\* skey = '{}_semaphore'.format(self._mac)
SKey(conn) == conn.mac \o <<"_semaphore">>

\* ------------------------------------------------------ command resolution

\* handle = int(dev_char.get('handle'), 0) if present else None
CatalogHandle(c) == IF c.handle # NoText THEN ParseInt(c.handle) ELSE NoInt

RECURSIVE ResolveFrom(_, _, _)
\* The loop over self._deviceInfo['characteristics'] from entry k on; ref is
\* the (handle, uuid, name) the loop has reached.
ResolveFrom(chars, k, ref) ==
    IF k > Len(chars) THEN ref
    ELSE LET c == chars[k]
             next ==
                IF ref.name # NoText /\ ref.name = c.name
                THEN [ref EXCEPT !.handle = CatalogHandle(c), !.uuid = c.uuid]
                ELSE IF ref.uuid # NoText /\ ref.uuid = c.uuid
                THEN [ref EXCEPT !.handle = CatalogHandle(c), !.name = c.name]
                ELSE IF ref.handle # NoInt /\ IntEqualsText(ref.handle, c.uuid)
                THEN [ref EXCEPT !.uuid = c.uuid, !.name = c.name]
                ELSE ref
         IN  ResolveFrom(chars, k + 1, next)

\* return_topic, computed from the fields the command gave
ReturnTopic(handle, uuid, name) ==
    IF (uuid # NoText \/ handle # NoInt) /\ name = NoText
    THEN IF handle # NoInt THEN FormatHex02(handle) ELSE uuid
    ELSE name

\* ignoreError = 1 as soon as the key is in the command
IgnoreError(command) == command.ignoreError # "absent"

\* mutant of Prepare: the result key is computed after the catalog lookup,
\* from the resolved fields
Prepare_TopicAfterResolution(conn, command, value) ==
    LET handle == IF command.handle # NoText THEN ParseInt(command.handle) ELSE NoInt
        given == [handle |-> handle, uuid |-> command.uuid, name |-> command.name]
    IN  IF command.handle # NoText /\ handle = NoInt
        THEN [raise |-> "ValueError", ref |-> given, return_topic |-> NoText,
              value |-> value]
        ELSE IF conn.deviceInfo = 0
        THEN [raise |-> "TypeError", ref |-> given,
              return_topic |-> ReturnTopic(handle, command.uuid, command.name),
              value |-> value]
        ELSE LET ref == ResolveFrom(KNOWN_DEVICES[conn.deviceInfo].characteristics,
                                    1, given)
             IN  [raise |-> "", ref |-> ref,
                  return_topic |-> ReturnTopic(ref.handle, ref.uuid, ref.name),
                  value |-> IF command.value THEN "bound" ELSE value]

\* Lines 133-169 for one command that has an action: what is raised before
\* the inner try (an empty raise means nothing), and the locals it leaves.
Prepare(conn, command, value) ==
    LET handle == IF command.handle # NoText THEN ParseInt(command.handle) ELSE NoInt
        given == [handle |-> handle, uuid |-> command.uuid, name |-> command.name]
        topic == ReturnTopic(handle, command.uuid, command.name)
    IN  IF command.handle # NoText /\ handle = NoInt
        THEN [raise |-> "ValueError", ref |-> given, return_topic |-> NoText,
              value |-> value]
        ELSE IF conn.deviceInfo = 0
        THEN [raise |-> "TypeError", ref |-> given, return_topic |-> topic,
              value |-> value]
        ELSE [raise |-> "",
              ref |-> ResolveFrom(KNOWN_DEVICES[conn.deviceInfo].characteristics, 1, given),
              return_topic |-> topic,
              value |-> IF command.value THEN "bound" ELSE value]

\* results[key] = v on a dict kept in insertion order
DictSet(d, key, v) ==
    IF \E k \in 1..Len(d) : d[k].key = key
    THEN [k \in 1..Len(d) |-> IF d[k].key = key THEN [key |-> key, v |-> v] ELSE d[k]]
    ELSE Append(d, [key |-> key, v |-> v])

\* ----------------------------------------------------------------- inputs

Command(action, ref, ignoreError, value) ==
    [action |-> action, handle |-> ref.handle, uuid |-> ref.uuid,
     name |-> ref.name, ignoreError |-> ignoreError, value |-> value]

ByName == [handle |-> NoText, uuid |-> NoText, name |-> T_battery]
ByUuid == [handle |-> NoText, uuid |-> T_uuid1, name |-> NoText]
ByHandle == [handle |-> T_handle1, uuid |-> NoText, name |-> NoText]
ByBadHandle == [handle |-> T_bad, uuid |-> NoText, name |-> NoText]
ByUuidAndHandle == [handle |-> T_handle1, uuid |-> T_uuid1, name |-> NoText]
ByNothing == [handle |-> NoText, uuid |-> NoText, name |-> NoText]

\* The commands a device request is built from: reads by each single field,
\* a read whose handle is no integer literal, reads that carry ignoreError
\* (true or false), writes with and without a value, a command without action.
Commands ==
    {Command("readCharacteristic", r, "absent", FALSE) :
        r \in {ByName, ByUuid, ByHandle, ByBadHandle, ByUuidAndHandle}}
    \cup {Command("readCharacteristic", ByHandle, ig, FALSE) : ig \in {"true", "false"}}
    \cup {Command("writeCharacteristic", ByHandle, "absent", v) : v \in BOOLEAN}
    \cup {Command("", ByNothing, "absent", FALSE)}

RECURSIVE SeqsUpTo(_, _)
\* the sequences over S of length at most n
SeqsUpTo(S, n) ==
    IF n = 0 THEN {<<>>}
    ELSE LET shorter == SeqsUpTo(S, n - 1)
         IN  shorter \cup {Append(q, x) : q \in {r \in shorter : Len(r) = n - 1}, x \in S}

\* json.loads of a payload that is not a JSON object leaves no dict
NoData == [has_commands |-> FALSE, commands |-> <<>>, combine |-> NoText, tries |-> NoInt]

\* json.dumps(data)
Dumps(data) == [kind |-> "object", n |-> 0, data |-> data]

Message(segment, payload) ==
    [segment |-> segment, payload |-> payload, qos |-> 0, retain |-> FALSE, attempt |-> 1]

\* message m as delivered at qos 1 with the retain flag set
RetainedMessage(m) == [m EXCEPT !.qos = 1, !.retain = TRUE]

\* 'ble/scan/commands' carrying the scan duration
ScanMessage == Message(T_scan, [kind |-> "int", n |-> 5, data |-> NoData])

DeviceMessage(segment, commands, combine, tries) ==
    Message(segment, Dumps([has_commands |-> TRUE, commands |-> commands,
                            combine |-> combine, tries |-> tries]))

\* a device request without the "commands" key
NoCommandsMessage(segment, tries) ==
    Message(segment, Dumps([has_commands |-> FALSE, commands |-> <<>>,
                            combine |-> NoText, tries |-> tries]))

\* a device request without the "commands" key that carries args
NoCommandsArgsMessage(segment, tries) ==
    Message(segment, Dumps([has_commands |-> FALSE, commands |-> <<>>,
                            combine |-> T_all, tries |-> tries]))

\* a payload that is no JSON at all
GarbageMessage(segment) == Message(segment, [kind |-> "garbage", n |-> 0, data |-> NoData])

\* topic segments of device requests: the registered alias in lower case and
\* the registered address written as a literal in upper case
Segments == {lower(T_alias), T_mac}

TriesValues == {NoInt} \cup 0..MaxTries

\* a scan request as a client other than the bridge publishes it: at least
\* once and retained, where line 291 publishes with the defaults
RetainedScanMessage == RetainedMessage(ScanMessage)

\* What the bus delivers in the concurrency specification.
BusMessages ==
    {RetainedScanMessage}
    \cup {DeviceMessage(seg, <<Command("readCharacteristic", ByHandle, "absent", FALSE)>>,
                        NoText, NoInt) : seg \in Segments}
    \cup {NoCommandsMessage(lower(T_alias), 2), GarbageMessage(lower(T_alias))}

\* What the executor specification starts from: every device request built
\* from Commands, with and without a combined topic and a retry budget.
ExecutorMessages ==
    {DeviceMessage(seg, cmds, combine, tries) :
        seg \in Segments, cmds \in SeqsUpTo(Commands, MaxCommands),
        combine \in {NoText, T_all}, tries \in {NoInt, MaxTries}}
    \cup {NoCommandsMessage(seg, tries) : seg \in Segments, tries \in TriesValues}
    \cup {RetainedMessage(NoCommandsArgsMessage(seg, tries)) :
              seg \in Segments, tries \in TriesValues}
    \cup {GarbageMessage(seg) : seg \in Segments}

\* ------------------------------------------------------------------ state

VARIABLES
    SCAN_LOOP,      \* config scan.loop
    ble_map_lock,   \* Semaphore(): its counter
    ble_dev_map,    \* dict skey -> Semaphore, in insertion order: <<[key, value]>>
    queue,          \* bt_thread_pool's work queue of submitted messages
    delivered,      \* messages the bus has delivered to on_message so far
    pc,             \* per worker: where it is in process_message / process_commands
    msg,            \* per worker: the message of its unit of work
    conn,           \* per worker: the BLEConnection
    idx,            \* per worker: position of the loop it is in
    value,          \* per worker: the local `value` of process_commands
    results,        \* per worker: the results dict
    acquired,       \* per worker: the keys a scan has acquired (history)
    trace,          \* per worker: what each command resolved to (history)
    radio,          \* per worker: the radio primitives issued (history)
    pubs,           \* per worker: the publications of the unit of work (history)
    raised          \* per worker: the exceptions raised in the unit of work (history)

vars == <<SCAN_LOOP, ble_map_lock, ble_dev_map, queue, delivered, pc, msg, conn,
          idx, value, results, acquired, trace, radio, pubs, raised>>

shared == <<ble_map_lock, ble_dev_map>>
frame == <<msg, conn, idx, value, results>>
history == <<acquired, trace, radio, pubs, raised>>

NoConn == [mac |-> NoText, deviceInfo |-> 0, name |-> NoText]

InitWorkers ==
    /\ pc = [w \in Workers |-> "idle"]
    /\ msg = [w \in Workers |-> ScanMessage]
    /\ conn = [w \in Workers |-> NoConn]
    /\ idx = [w \in Workers |-> 0]
    /\ value = [w \in Workers |-> "unbound"]
    /\ results = [w \in Workers |-> <<>>]
    /\ acquired = [w \in Workers |-> <<>>]
    /\ trace = [w \in Workers |-> <<>>]
    /\ radio = [w \in Workers |-> <<>>]
    /\ pubs = [w \in Workers |-> <<>>]
    /\ raised = [w \in Workers |-> <<>>]

\* After start-up: both semaphores' maps as constructed, and the initial scan
\* command published when scan.initial is set.
Init ==
    /\ SCAN_LOOP \in BOOLEAN
    /\ ble_map_lock = 1
    /\ ble_dev_map = <<>>
    /\ \E SCAN_INITIAL \in BOOLEAN :
        /\ queue = IF SCAN_INITIAL THEN <<ScanMessage>> ELSE <<>>
        /\ delivered = IF SCAN_INITIAL THEN 1 ELSE 0
    /\ InitWorkers

\* One device request is waiting in the pool's queue.
InitExecutor ==
    /\ SCAN_LOOP = FALSE
    /\ ble_map_lock = 1
    /\ ble_dev_map = <<>>
    /\ \E m \in ExecutorMessages : queue = <<m>>
    /\ delivered = 1
    /\ InitWorkers

\* ------------------------------------------------------------- semaphores

HasKey(map, key) == \E k \in 1..Len(map) : map[k].key = key
KeyIndex(map, key) == CHOOSE k \in 1..Len(map) : map[k].key = key

\* Semaphore.acquire() once the counter is positive, and Semaphore.release()
SemAcquire(map, k) == [map EXCEPT ![k].value = @ - 1]
SemRelease(map, k) == [map EXCEPT ![k].value = @ + 1]

\* for v in ble_dev_map.values(): v.release()
ReleaseAll(map) == [k \in 1..Len(map) |-> [map[k] EXCEPT !.value = @ + 1]]

Data(w) == msg[w].payload.data

\* the bytes a successful read returns, as [int(x) for x in ...]
ReadBytes == <<90>>

\* ---------------------------------------------------------- publications

DataPublication(name, key, payload, combined) ==
    [kind |-> IF combined THEN "combined" ELSE "single", name |-> name,
     key |-> key, payload |-> payload, retain |-> TRUE]

ErrorPublication(topic, error) ==
    [kind |-> "error", name |-> NoText, key |-> NoText,
     payload |-> [topic |-> topic, error |-> error], retain |-> FALSE]

CommandPublication(m) ==
    [kind |-> "command", name |-> NoText, key |-> NoText, payload |-> m,
     retain |-> m.retain]

RECURSIVE SinglePublications(_, _, _)
\* for topic, result in results.items(): client.publish(...)
SinglePublications(name, d, k) ==
    IF k > Len(d) THEN <<>>
    ELSE <<DataPublication(name, d[k].key, d[k].v, FALSE)>>
         \o SinglePublications(name, d, k + 1)

\* mutant of ResultPublications: the combined topic is ignored
ResultPublications_PerKeyOnly(name, combine, d) == SinglePublications(name, d, 1)

\* lines 193-197
ResultPublications(name, combine, d) ==
    IF combine # NoText
    THEN <<DataPublication(name, combine, d, TRUE)>>
    ELSE SinglePublications(name, d, 1)

\* ---------------------------------------------------------------- actions

\* on_message: the bus delivers a message and it is submitted to the pool
on_message(m) ==
    /\ delivered < MaxMessages
    /\ queue' = Append(queue, m)
    /\ delivered' = delivered + 1
    /\ UNCHANGED <<SCAN_LOOP, shared, pc, frame, history>>

\* process_message up to its first blocking point: a worker takes the next
\* message, classifies the topic, and for a device request decodes the
\* payload, builds the BLEConnection and reads data['commands'].
process_message(w) ==
    /\ pc[w] = "idle"
    /\ queue # <<>>
    /\ LET m == Head(queue)
           kind == m.payload.kind
       IN  /\ queue' = Tail(queue)
           /\ msg' = [msg EXCEPT ![w] = m]
           /\ IF m.segment = T_scan
              THEN /\ pc' = [pc EXCEPT ![w] = "scan_map_lock"]
                   /\ UNCHANGED <<conn, raised>>
              ELSE IF kind = "garbage"
              THEN /\ pc' = [pc EXCEPT ![w] = "done"]
                   /\ raised' = [raised EXCEPT ![w] = <<"JSONDecodeError">>]
                   /\ UNCHANGED conn
              ELSE IF kind = "int"
              THEN /\ pc' = [pc EXCEPT ![w] = "done"]
                   /\ raised' = [raised EXCEPT ![w] = <<"TypeError", "TypeError">>]
                   /\ conn' = [conn EXCEPT ![w] = BLEConnection(m.segment)]
              ELSE IF ~m.payload.data.has_commands
              THEN /\ pc' = [pc EXCEPT ![w] = "except"]
                   /\ raised' = [raised EXCEPT ![w] = <<"KeyError">>]
                   /\ conn' = [conn EXCEPT ![w] = BLEConnection(m.segment)]
              ELSE /\ pc' = [pc EXCEPT ![w] = "map_lock"]
                   /\ conn' = [conn EXCEPT ![w] = BLEConnection(m.segment)]
                   /\ UNCHANGED raised
    /\ UNCHANGED <<SCAN_LOOP, shared, delivered, idx, value, results,
                   acquired, trace, radio, pubs>>

\* process_commands: `with ble_map_lock:` entered
acquire_map_lock(w) ==
    /\ pc[w] = "map_lock"
    /\ ble_map_lock > 0
    /\ ble_map_lock' = ble_map_lock - 1
    /\ pc' = [pc EXCEPT ![w] = "register"]
    /\ UNCHANGED <<SCAN_LOOP, ble_dev_map, queue, delivered, frame, history>>

\* the body of `with ble_map_lock:` and its exit
register(w) ==
    /\ pc[w] = "register"
    /\ ble_dev_map' =
          IF HasKey(ble_dev_map, SKey(conn[w])) THEN ble_dev_map
          ELSE Append(ble_dev_map, [key |-> SKey(conn[w]), value |-> 1])
    /\ ble_map_lock' = ble_map_lock + 1
    /\ pc' = [pc EXCEPT ![w] = "dev_lock"]
    /\ UNCHANGED <<SCAN_LOOP, queue, delivered, frame, history>>

\* mutant of acquire_device: one radio, so one session at a time whatever the
\* address
acquire_device_OneSession(w) ==
    /\ pc[w] = "dev_lock"
    /\ \A o \in Workers :
          pc[o] \notin {"connect", "command", "publish", "disconnect"}
    /\ LET k == KeyIndex(ble_dev_map, SKey(conn[w]))
       IN  /\ ble_dev_map[k].value > 0
           /\ ble_dev_map' = SemAcquire(ble_dev_map, k)
    /\ pc' = [pc EXCEPT ![w] = "connect"]
    /\ UNCHANGED <<SCAN_LOOP, ble_map_lock, queue, delivered, frame, history>>

\* `with ble_dev_map[skey]:` entered
acquire_device(w) ==
    /\ pc[w] = "dev_lock"
    /\ LET k == KeyIndex(ble_dev_map, SKey(conn[w]))
       IN  /\ ble_dev_map[k].value > 0
           /\ ble_dev_map' = SemAcquire(ble_dev_map, k)
    /\ pc' = [pc EXCEPT ![w] = "connect"]
    /\ UNCHANGED <<SCAN_LOOP, ble_map_lock, queue, delivered, frame, history>>

\* mutant of LoopPc: the end of the command loop disconnects at once, without
\* publishing the results
LoopPc_DisconnectFirst(i, n) == IF i > n THEN "disconnect" ELSE "command"

\* pc of the command loop at position i of a list of n commands
LoopPc(i, n) == IF i > n THEN "publish" ELSE "command"

\* mutant of Abort: a command's failure still publishes what was collected
Abort_PublishesResults(w, error) ==
    /\ ble_dev_map' = ble_dev_map
    /\ raised' = [raised EXCEPT ![w] = Append(@, error)]
    /\ pc' = [pc EXCEPT ![w] = IF pc[w] = "command" THEN "publish" ELSE "error"]

\* mutant of Abort: a command's failure is swallowed and the loop goes on
Abort_ContinuesLoop(w, error) ==
    /\ ble_dev_map' = ble_dev_map
    /\ raised' = [raised EXCEPT ![w] = Append(@, error)]
    /\ pc' = [pc EXCEPT ![w] = IF pc[w] = "command" THEN "command" ELSE "error"]

\* mutant of Abort: the exception reaches the except clause with the device
\* semaphore still held
Abort_KeepsLock(w, error) ==
    /\ UNCHANGED ble_dev_map
    /\ raised' = [raised EXCEPT ![w] = Append(@, error)]
    /\ pc' = [pc EXCEPT ![w] = "error"]

\* An exception leaves `with ble_dev_map[skey]:` (releasing the semaphore)
\* and reaches the except clause of process_commands.
Abort(w, error) ==
    /\ ble_dev_map' = SemRelease(ble_dev_map, KeyIndex(ble_dev_map, SKey(conn[w])))
    /\ raised' = [raised EXCEPT ![w] = Append(@, error)]
    /\ pc' = [pc EXCEPT ![w] = "error"]

\* p = Peripheral(self._mac)
connect(w) ==
    /\ pc[w] = "connect"
    /\ \E out \in {"ok", "fail"} :
        /\ radio' = [radio EXCEPT ![w] = Append(@, [op |-> "connect", i |-> 0, out |-> out])]
        /\ IF out = "ok"
           THEN /\ pc' = [pc EXCEPT ![w] = LoopPc(1, Len(Data(w).commands))]
                /\ idx' = [idx EXCEPT ![w] = 1]
                /\ UNCHANGED <<ble_dev_map, raised>>
           ELSE /\ Abort(w, "BTLEException")
                /\ UNCHANGED idx
    /\ UNCHANGED <<SCAN_LOOP, ble_map_lock, queue, delivered, msg, conn, value,
                   results, acquired, trace, pubs>>

\* handle, uuid and name all None
NoRef == [handle |-> NoInt, uuid |-> NoText, name |-> NoText]

\* which field the inner try addresses the characteristic by
Target(ref) ==
    IF ref.handle # NoInt THEN "handle"
    ELSE IF ref.uuid # NoText THEN "uuid"
    ELSE "none"

\* what the radio can answer: a handle operation succeeds or raises; a uuid
\* operation also may find no characteristic (getCharacteristics returns an
\* empty list and the for loop body never runs)
Outcomes(target) ==
    IF target = "handle" THEN {"ok", "fail"}
    ELSE IF target = "uuid" THEN {"ok", "fail", "none"}
    ELSE {"none"}

\* Lines 171-190 for one command: whether a radio primitive is called, whether
\* the try block raises, and whether a result is stored. A write whose
\* `value` was never bound raises at the logging line before the write.
Execute(action, target, val, out) ==
    LET rw == action \in {"readCharacteristic", "writeCharacteristic"}
        unbound == action = "writeCharacteristic" /\ val = "unbound"
    IN  [issued |-> rw /\ target # "none" /\ ~(unbound /\ target = "handle"),
         exception |-> /\ rw
                       /\ target # "none"
                       /\ \/ out = "fail"
                          \/ unbound /\ (target = "handle" \/ out = "ok"),
         stored |-> action = "readCharacteristic" /\ target # "none" /\ out = "ok"]

\* one iteration of `for command in command_list:`
command(w) ==
    /\ pc[w] = "command"
    /\ LET i == idx[w]
           n == Len(Data(w).commands)
           c == Data(w).commands[i]
           prep == Prepare(conn[w], c, value[w])
           target == Target(prep.ref)
       IN  IF c.action = ""
           THEN /\ idx' = [idx EXCEPT ![w] = i + 1]
                /\ pc' = [pc EXCEPT ![w] = LoopPc(i + 1, n)]
                /\ trace' = [trace EXCEPT ![w] = Append(@,
                      [i |-> i, ref |-> NoRef, return_topic |-> NoText,
                       end |-> "skipped"])]
                /\ UNCHANGED <<ble_dev_map, value, results, radio, raised>>
           ELSE IF prep.raise # ""
           THEN /\ Abort(w, prep.raise)
                /\ trace' = [trace EXCEPT ![w] = Append(@,
                      [i |-> i, ref |-> prep.ref, return_topic |-> prep.return_topic,
                       end |-> "raised"])]
                /\ UNCHANGED <<idx, value, results, radio>>
           ELSE \E out \in Outcomes(target) :
                LET x == Execute(c.action, target, prep.value, out)
                IN  /\ value' = [value EXCEPT ![w] = prep.value]
                    /\ radio' = [radio EXCEPT ![w] =
                          IF x.issued
                          THEN Append(@, [op |-> c.action, i |-> i, out |-> out])
                          ELSE @]
                    /\ results' = [results EXCEPT ![w] =
                          IF x.stored THEN DictSet(@, prep.return_topic, ReadBytes)
                          ELSE @]
                    /\ trace' = [trace EXCEPT ![w] = Append(@,
                          [i |-> i, ref |-> prep.ref, return_topic |-> prep.return_topic,
                           end |-> IF x.stored THEN "stored"
                                   ELSE IF ~x.exception THEN "done"
                                   ELSE IF IgnoreError(c) THEN "ignored"
                                   ELSE "raised"])]
                    /\ IF x.exception /\ ~IgnoreError(c)
                       THEN /\ Abort(w, "BTLEException")
                            /\ UNCHANGED idx
                       ELSE /\ idx' = [idx EXCEPT ![w] = i + 1]
                            /\ pc' = [pc EXCEPT ![w] = LoopPc(i + 1, n)]
                            /\ UNCHANGED <<ble_dev_map, raised>>
    /\ UNCHANGED <<SCAN_LOOP, ble_map_lock, queue, delivered, msg, conn,
                   acquired, pubs>>

\* lines 193-197: the results are published once the loop has completed
publish(w) ==
    /\ pc[w] = "publish"
    /\ pubs' = [pubs EXCEPT ![w] =
          @ \o ResultPublications(conn[w].name, Data(w).combine, results[w])]
    /\ pc' = [pc EXCEPT ![w] = "disconnect"]
    /\ UNCHANGED <<SCAN_LOOP, shared, queue, delivered, frame,
                   acquired, trace, radio, raised>>

\* p.disconnect(), then the exit of `with ble_dev_map[skey]:`; process_commands
\* returns and so does process_message
disconnect(w) ==
    /\ pc[w] = "disconnect"
    /\ \E out \in {"ok", "fail"} :
        /\ radio' = [radio EXCEPT ![w] = Append(@, [op |-> "disconnect", i |-> 0, out |-> out])]
        /\ IF out = "ok"
           THEN /\ ble_dev_map' =
                      SemRelease(ble_dev_map, KeyIndex(ble_dev_map, SKey(conn[w])))
                /\ pc' = [pc EXCEPT ![w] = "done"]
                /\ UNCHANGED raised
           ELSE Abort(w, "BTLEException")
    /\ UNCHANGED <<SCAN_LOOP, ble_map_lock, queue, delivered, frame,
                   acquired, trace, pubs>>

\* the except clause of process_commands: publish the error, sleep(1), and
\* return normally to process_message, which has nothing left to do
report_error(w) ==
    /\ pc[w] = "error"
    /\ pubs' = [pubs EXCEPT ![w] = Append(@,
          ErrorPublication("ble/process_commands/error", raised[w][Len(raised[w])]))]
    /\ pc' = [pc EXCEPT ![w] = "done"]
    /\ UNCHANGED <<SCAN_LOOP, shared, queue, delivered, frame,
                   acquired, trace, radio, raised>>

\* mutant of Resubmission: the request is published again as it came, its
\* tries not decremented
Resubmission_SameTries(m) == [m EXCEPT !.attempt = @ + 1]

\* the message line 276 publishes: the same topic, qos and retain, and the
\* data with tries decremented
Resubmission(m) ==
    [m EXCEPT !.payload = Dumps([m.payload.data EXCEPT !.tries = @ - 1]),
              !.attempt = @ + 1]

\* whether lines 270-271 let the failed request be tried again
Retries(data) == data.tries # NoInt /\ data.tries > 1

\* lines 268-277: the except clause around BLEConnection and process_commands
\* logs, and re-publishes the request while its tries allow; the bus
\* delivers the re-published request back to on_message
retry(w) ==
    /\ pc[w] = "except"
    /\ IF Retries(Data(w))
       THEN /\ pubs' = [pubs EXCEPT ![w] = Append(@, CommandPublication(Resubmission(msg[w])))]
            /\ queue' = Append(queue, Resubmission(msg[w]))
       ELSE UNCHANGED <<pubs, queue>>
    /\ pc' = [pc EXCEPT ![w] = "done"]
    /\ UNCHANGED <<SCAN_LOOP, shared, delivered, frame, acquired, trace, radio, raised>>

\* process_message has returned: the worker goes back to the pool
return(w) ==
    /\ pc[w] = "done"
    /\ pc' = [pc EXCEPT ![w] = "idle"]
    /\ msg' = [msg EXCEPT ![w] = ScanMessage]
    /\ conn' = [conn EXCEPT ![w] = NoConn]
    /\ idx' = [idx EXCEPT ![w] = 0]
    /\ value' = [value EXCEPT ![w] = "unbound"]
    /\ results' = [results EXCEPT ![w] = <<>>]
    /\ acquired' = [acquired EXCEPT ![w] = <<>>]
    /\ trace' = [trace EXCEPT ![w] = <<>>]
    /\ radio' = [radio EXCEPT ![w] = <<>>]
    /\ pubs' = [pubs EXCEPT ![w] = <<>>]
    /\ raised' = [raised EXCEPT ![w] = <<>>]
    /\ UNCHANGED <<SCAN_LOOP, shared, queue, delivered>>

\* pc of the acquire loop at position j of a map of n semaphores
AcquireLoopPc(j, n) == IF j > n THEN "scan" ELSE "scan_acquire"

\* mutant of scan_acquire_map_lock: the scan looks at the map without keeping
\* the map lock
scan_acquire_map_lock_Unlocked(w) ==
    /\ pc[w] = "scan_map_lock"
    /\ ble_map_lock > 0
    /\ idx' = [idx EXCEPT ![w] = 1]
    /\ pc' = [pc EXCEPT ![w] = AcquireLoopPc(1, Len(ble_dev_map))]
    /\ UNCHANGED <<SCAN_LOOP, shared, queue, delivered, msg, conn, value,
                   results, history>>

\* scan request: `with ble_map_lock:` entered (line 240)
scan_acquire_map_lock(w) ==
    /\ pc[w] = "scan_map_lock"
    /\ ble_map_lock > 0
    /\ ble_map_lock' = ble_map_lock - 1
    /\ idx' = [idx EXCEPT ![w] = 1]
    /\ pc' = [pc EXCEPT ![w] = AcquireLoopPc(1, Len(ble_dev_map))]
    /\ UNCHANGED <<SCAN_LOOP, ble_dev_map, queue, delivered, msg, conn, value,
                   results, history>>

\* one v.acquire() of `for v in ble_dev_map.values():`, in insertion order
scan_acquire(w) ==
    /\ pc[w] = "scan_acquire"
    /\ LET j == idx[w]
       IN  /\ ble_dev_map[j].value > 0
           /\ ble_dev_map' = SemAcquire(ble_dev_map, j)
           /\ acquired' = [acquired EXCEPT ![w] = Append(@, ble_dev_map[j].key)]
           /\ idx' = [idx EXCEPT ![w] = j + 1]
           /\ pc' = [pc EXCEPT ![w] = AcquireLoopPc(j + 1, Len(ble_dev_map))]
    /\ UNCHANGED <<SCAN_LOOP, ble_map_lock, queue, delivered, msg, conn, value,
                   results, trace, radio, pubs, raised>>

\* what ScanDelegate.handleDiscovery publishes for one discovered device
Discovery ==
    << [kind |-> "rssi", name |-> lower(T_mac), key |-> NoText,
        payload |-> 0 - 60, retain |-> FALSE],
       [kind |-> "advertisement", name |-> lower(T_mac), key |-> <<"0","9">>,
        payload |-> T_alias, retain |-> FALSE],
       [kind |-> "advertisement_json", name |-> lower(T_mac), key |-> NoText,
        payload |-> <<[key |-> T_alias, v |-> T_alias]>>, retain |-> FALSE] >>

\* scanner.scan(int(msg.payload)) inside `with ble_map_lock:`, and the exit of
\* the with block whether it returned or raised
scan(w) ==
    /\ pc[w] = "scan"
    /\ ble_map_lock' = ble_map_lock + 1
    /\ IF msg[w].payload.kind # "int"
       THEN /\ raised' = [raised EXCEPT ![w] = Append(@, "ValueError")]
            /\ pc' = [pc EXCEPT ![w] = "scan_error"]
            /\ UNCHANGED <<radio, pubs>>
       ELSE \E out \in {"ok", "found", "fail"} :
            /\ radio' = [radio EXCEPT ![w] = Append(@, [op |-> "scan", i |-> 0, out |-> out])]
            /\ pubs' = [pubs EXCEPT ![w] = IF out = "found" THEN @ \o Discovery ELSE @]
            /\ IF out = "fail"
               THEN /\ raised' = [raised EXCEPT ![w] = Append(@, "BTLEException")]
                    /\ pc' = [pc EXCEPT ![w] = "scan_error"]
               ELSE /\ pc' = [pc EXCEPT ![w] = "scan_finally"]
                    /\ UNCHANGED raised
    /\ UNCHANGED <<SCAN_LOOP, ble_dev_map, queue, delivered, frame, acquired, trace>>

\* lines 246-249: the scan's except clause, with its sleep(12)
scan_error(w) ==
    /\ pc[w] = "scan_error"
    /\ pubs' = [pubs EXCEPT ![w] = Append(@,
          ErrorPublication("ble/scanning/error", raised[w][Len(raised[w])]))]
    /\ pc' = [pc EXCEPT ![w] = "scan_finally"]
    /\ UNCHANGED <<SCAN_LOOP, shared, queue, delivered, frame,
                   acquired, trace, radio, raised>>

\* finally: `with ble_map_lock:` entered (line 251)
scan_finally(w) ==
    /\ pc[w] = "scan_finally"
    /\ ble_map_lock > 0
    /\ ble_map_lock' = ble_map_lock - 1
    /\ pc' = [pc EXCEPT ![w] = "scan_release"]
    /\ UNCHANGED <<SCAN_LOOP, ble_dev_map, queue, delivered, frame, history>>

\* lines 252-258: every semaphore now in the map is released, the map lock is
\* left, the scanner stopped
scan_release(w) ==
    /\ pc[w] = "scan_release"
    /\ ble_dev_map' = ReleaseAll(ble_dev_map)
    /\ ble_map_lock' = ble_map_lock + 1
    /\ pc' = [pc EXCEPT ![w] = "scan_loop"]
    /\ UNCHANGED <<SCAN_LOOP, queue, delivered, frame, history>>

\* mutant of scan_loop: the scan request is published again only after a scan
\* that raised nothing
scan_loop_OnSuccessOnly(w) ==
    /\ pc[w] = "scan_loop"
    /\ IF SCAN_LOOP /\ raised[w] = <<>>
       THEN /\ pubs' = [pubs EXCEPT ![w] = Append(@, CommandPublication(msg[w]))]
            /\ IF delivered < MaxMessages
               THEN /\ queue' = Append(queue, msg[w])
                    /\ delivered' = delivered + 1
               ELSE UNCHANGED <<queue, delivered>>
       ELSE UNCHANGED <<pubs, queue, delivered>>
    /\ pc' = [pc EXCEPT ![w] = "done"]
    /\ UNCHANGED <<SCAN_LOOP, shared, frame, acquired, trace, radio, raised>>

\* lines 259-261: with scan.loop set the scan command is published again after
\* sleep(8); the bus delivers it back to on_message while the run's message
\* budget lasts
scan_loop(w) ==
    /\ pc[w] = "scan_loop"
    /\ IF SCAN_LOOP
       THEN /\ pubs' = [pubs EXCEPT ![w] = Append(@, CommandPublication(msg[w]))]
            /\ IF delivered < MaxMessages
               THEN /\ queue' = Append(queue, msg[w])
                    /\ delivered' = delivered + 1
               ELSE UNCHANGED <<queue, delivered>>
       ELSE UNCHANGED <<pubs, queue, delivered>>
    /\ pc' = [pc EXCEPT ![w] = "done"]
    /\ UNCHANGED <<SCAN_LOOP, shared, frame, acquired, trace, radio, raised>>

\* ---------------------------------------------------------- specifications

DeviceStep(w) ==
    \/ process_message(w)
    \/ acquire_map_lock(w)
    \/ register(w)
    \/ acquire_device(w)
    \/ connect(w)
    \/ command(w)
    \/ publish(w)
    \/ disconnect(w)
    \/ report_error(w)
    \/ retry(w)
    \/ return(w)

ScanStep(w) ==
    \/ scan_acquire_map_lock(w)
    \/ scan_acquire(w)
    \/ scan(w)
    \/ scan_error(w)
    \/ scan_finally(w)
    \/ scan_release(w)
    \/ scan_loop(w)

\* The bridge: the bus delivers scan and device requests, two pool workers
\* process them.
Next ==
    \/ \E m \in BusMessages : on_message(m)
    \/ \E w \in Workers : DeviceStep(w)
    \/ \E w \in Workers : ScanStep(w)

Spec == Init /\ [][Next]_vars

\* The executor on one device request (and the requests its retries
\* re-publish).
NextExecutor == \E w \in Workers : DeviceStep(w)

SpecExecutor == InitExecutor /\ [][NextExecutor]_vars

\* ------------------------------------------------------------------ claims

\* a worker is inside the device session: between entering and leaving
\* `with ble_dev_map[skey]:` in process_commands
InSession(w) == pc[w] \in {"connect", "command", "publish", "disconnect"}

Range(q) == {q[k] : k \in 1..Len(q)}

\* C1: per-address mutual exclusion: no two units of work are inside the
\* device session of the same address (the same semaphore key) at once.
C1_MutualExclusion ==
    \A w1, w2 \in Workers :
        (w1 # w2 /\ InSession(w1) /\ InSession(w2))
            => SKey(conn[w1]) # SKey(conn[w2])

\* C2: scan/device exclusion: while a discovery scan is running, no device
\* session is open on an address whose semaphore the scan found in the map
\* and acquired before it started.
C2_ScanDeviceExclusion ==
    \A w1, w2 \in Workers :
        (pc[w1] = "scan" /\ InSession(w2))
            => SKey(conn[w2]) \notin Range(acquired[w1])

IsData(p) == p.kind \in {"single", "combined"}
DataPublications(w) == SelectSeq(pubs[w], IsData)

\* re-submissions a request has behind it, and the tries it started with
Resubmissions(m) == m.attempt - 1
OriginalTries(m) == m.payload.data.tries + Resubmissions(m)

\* the unit of work has ended without re-publishing its request
Dropped(w) ==
    /\ pc[w] = "done"
    /\ \A k \in 1..Len(pubs[w]) : pubs[w][k].kind # "command"

\* the batch of the unit of work failed inside process_commands
BatchFailed(w) == radio[w] # <<>> /\ raised[w] # <<>>

\* C3: retry budget: a device request that carried tries = n >= 1 and whose
\* batch fails is dropped only at its n-th failure, after exactly n-1
\* re-submissions.
C3_RetryBudget ==
    \A w \in Workers :
        (Dropped(w) /\ BatchFailed(w) /\ Data(w).tries >= 1)
            => Resubmissions(msg[w]) = OriginalTries(msg[w]) - 1

IsDeviceOperation(r) == r.op \in {"readCharacteristic", "writeCharacteristic"}
\* the read and write primitives the batch has issued, in the order issued
Operations(w) == SelectSeq(radio[w], IsDeviceOperation)

\* operation r of the batch failed and its command has no ignoreError key
FailedWithoutIgnoreError(w, r) ==
    r.out = "fail" /\ Data(w).commands[r.i].ignoreError = "absent"

\* the batch was aborted by a command: it raised before the inner try, or
\* inside it without ignoreError
Aborted(w) == \E k \in 1..Len(trace[w]) : trace[w][k].end = "raised"

\* C4: no partial publish on abort: once an operation of the batch has failed
\* with ignoreError unset, or a command has otherwise aborted the batch, the
\* unit of work makes no data publication, per key or combined.
C4_NoPartialPublish ==
    \A w \in Workers :
        (\/ \E k \in 1..Len(Operations(w)) :
                FailedWithoutIgnoreError(w, Operations(w)[k])
         \/ Aborted(w))
            => DataPublications(w) = <<>>

\* C4 witness: the first command's read was stored, the second command
\* aborted the batch, and the unit of work has ended.
C4_Witness ==
    \E w \in Workers :
        /\ pc[w] = "done"
        /\ Len(trace[w]) = 2
        /\ trace[w][1].end = "stored"
        /\ trace[w][2].end = "raised"
        /\ Len(Operations(w)) = 2
        /\ FailedWithoutIgnoreError(w, Operations(w)[2])
        /\ results[w] # <<>>

\* the command loop ran to its end and the results were published
LoopCompleted(w) ==
    \/ pc[w] = "disconnect"
    \/ \E k \in 1..Len(radio[w]) : radio[w][k].op = "disconnect"

IsStored(t) == t.end = "stored"
\* the result keys of the commands whose read succeeded, in batch order
StoredKeys(w) ==
    LET st == SelectSeq(trace[w], IsStored)
    IN  [k \in 1..Len(st) |-> st[k].return_topic]

Distinct(q) == \A j, k \in 1..Len(q) : j # k => q[j] # q[k]

\* C5: result publication count: a completed batch with N successful reads
\* under N distinct keys makes exactly one retained publication, to the
\* combined topic and holding all N keys, when combineResponsesToTopic is
\* set, and exactly N retained publications, one per key, when it is not.
C5_PublicationCount ==
    \A w \in Workers :
        (LoopCompleted(w) /\ Distinct(StoredKeys(w))) =>
            LET d == DataPublications(w)
                keys == StoredKeys(w)
            IN  IF Data(w).combine # NoText
                THEN /\ Len(d) = 1
                     /\ d[1].kind = "combined"
                     /\ d[1].key = Data(w).combine
                     /\ d[1].retain
                     /\ {d[1].payload[k].key : k \in 1..Len(d[1].payload)} = Range(keys)
                     /\ Len(d[1].payload) = Len(keys)
                ELSE /\ Len(d) = Len(keys)
                     /\ \A k \in 1..Len(d) : d[k].kind = "single" /\ d[k].retain
                     /\ \A j \in 1..Len(keys) :
                            Cardinality({k \in 1..Len(d) : d[k].key = keys[j]}) = 1

\* C5 witness: a completed batch with two successful reads under two distinct
\* keys and no combined topic.
C5_Witness ==
    \E w \in Workers :
        /\ LoopCompleted(w)
        /\ Len(StoredKeys(w)) = 2
        /\ Distinct(StoredKeys(w))
        /\ Data(w).combine = NoText

\* C6: error propagation: a unit of work in which an error was raised has
\* published to an error topic by the time it ends.
C6_ErrorPublished ==
    \A w \in Workers :
        (pc[w] = "done" /\ raised[w] # <<>>)
            => \E k \in 1..Len(pubs[w]) : pubs[w][k].kind = "error"

\* the characteristic catalog of a registered device
Catalog(w) == KNOWN_DEVICES[conn[w].deviceInfo].characteristics

\* the single field by which command c references catalog entry e
ReferencesBy(c, e) ==
    IF c.name # NoText /\ c.uuid = NoText /\ c.handle = NoText /\ c.name = e.name
    THEN "name"
    ELSE IF c.uuid # NoText /\ c.name = NoText /\ c.handle = NoText /\ c.uuid = e.uuid
    THEN "uuid"
    ELSE IF c.handle # NoText /\ c.name = NoText /\ c.uuid = NoText
            /\ e.handle # NoText /\ ParseInt(c.handle) # NoInt
            /\ ParseInt(c.handle) = ParseInt(e.handle)
    THEN "handle"
    ELSE "none"

\* C7: canonical resolution: two commands of a batch that reference the same
\* catalog entry of a registered device by different single fields resolve to
\* the same (handle, uuid, name).
C7_CanonicalResolution ==
    \A w \in Workers :
        conn[w].deviceInfo # 0 =>
            \A a, b \in 1..Len(trace[w]) :
                \A n \in 1..Len(Catalog(w)) :
                    LET ca == Data(w).commands[trace[w][a].i]
                        cb == Data(w).commands[trace[w][b].i]
                        e == Catalog(w)[n]
                    IN  (/\ ca.action # "" /\ cb.action # ""
                         /\ ReferencesBy(ca, e) # "none"
                         /\ ReferencesBy(cb, e) # "none"
                         /\ ReferencesBy(ca, e) # ReferencesBy(cb, e))
                            => trace[w][a].ref = trace[w][b].ref

\* C8: address normalization before locking: requests that name the same
\* address in different letter case use one semaphore, so the map never holds
\* two semaphores whose keys differ only in case.
C8_OneLockPerAddress ==
    \A j, k \in 1..Len(ble_dev_map) :
        lower(ble_dev_map[j].key) = lower(ble_dev_map[k].key) => j = k

\* C9: literal-address fallback: in a request whose segment matched no alias,
\* a read by a valid handle that the command loop reaches is issued to the
\* device, as it is for a registered device.
C9_LiteralAddressExecutes ==
    \A w \in Workers :
        (pc[w] # "idle" /\ msg[w].segment # T_scan /\ conn[w].deviceInfo = 0) =>
            \A k \in 1..Len(trace[w]) :
                LET c == Data(w).commands[trace[w][k].i]
                IN  (/\ c.action = "readCharacteristic"
                     /\ c.handle # NoText
                     /\ ParseInt(c.handle) # NoInt)
                        => \E r \in 1..Len(radio[w]) :
                              /\ radio[w][r].op = "readCharacteristic"
                              /\ radio[w][r].i = trace[w][k].i

\* C10: in-batch ordering: the operations a batch issues follow the order of
\* its command list, each belongs to a command the loop has reached, the loop
\* reaches the commands one after the other, and an operation that failed
\* with ignoreError unset, or a command that aborted the batch, is the last.
C10_InOrder ==
    \A w \in Workers :
        LET ops == Operations(w)
        IN  /\ \A j, k \in 1..Len(ops) : j < k => ops[j].i <= ops[k].i
            /\ \A k \in 1..Len(trace[w]) : trace[w][k].i = k
            /\ \A j \in 1..Len(ops) : ops[j].i \in 1..Len(trace[w])
            /\ \A j \in 1..Len(ops) :
                  FailedWithoutIgnoreError(w, ops[j]) =>
                      /\ j = Len(ops)
                      /\ ops[j].i = Len(trace[w])
            /\ \A k \in 1..Len(trace[w]) :
                  trace[w][k].end = "raised" =>
                      /\ k = Len(trace[w])
                      /\ \A j \in 1..Len(ops) : ops[j].i <= k

\* C10 witness: a batch of two commands whose first operation succeeded and
\* whose second failed without ignoreError, both issued, in that order.
C10_Witness ==
    \E w \in Workers :
        /\ Len(Operations(w)) = 2
        /\ Operations(w)[1].out = "ok"
        /\ Operations(w)[2].out = "fail"
        /\ trace[w][2].end = "raised"
        /\ pc[w] = "done"

\* a unit of work that has named its address and has not yet been granted the
\* address's semaphore
Requesting(w) == pc[w] \in {"map_lock", "register", "dev_lock"}

\* the semaphore of conn's address is not registered yet, or is free
DeviceLockFree(c) ==
    HasKey(ble_dev_map, SKey(c)) =>
        ble_dev_map[KeyIndex(ble_dev_map, SKey(c))].value > 0

\* C11: with the pool's two workers, while one worker is in a session on
\* address a and the semaphore of another address b is free, a worker
\* requesting b is never held up: it can take the map lock to register b,
\* leave it, and then take b's semaphore, all while a stays held.
C11_Independence ==
    \A h \in Workers : \A w \in Workers \ {h} :
        (/\ InSession(h)
         /\ Requesting(w)
         /\ SKey(conn[w]) # SKey(conn[h])
         /\ DeviceLockFree(conn[w]))
        => /\ pc[w] = "map_lock" => ENABLED acquire_map_lock(w)
           /\ pc[w] = "register" => ENABLED register(w)
           /\ pc[w] = "dev_lock" => ENABLED acquire_device(w)

C11_Witness ==
    \E h \in Workers : \E w \in Workers \ {h} :
        /\ InSession(h)
        /\ pc[w] = "dev_lock"
        /\ SKey(conn[w]) # SKey(conn[h])
        /\ DeviceLockFree(conn[w])


\* the unit of work of w is a scan
IsScan(w) == pc[w] # "idle" /\ msg[w].segment = T_scan

IsCommand(p) == p.kind = "command"
\* the requests the unit of work has published, in order
CommandPublications(w) == SelectSeq(pubs[w], IsCommand)

\* publication p carries request m: same topic, payload, qos and retain
Republishes(p, m) ==
    /\ p.payload.segment = m.segment
    /\ p.payload.payload = m.payload
    /\ p.payload.qos = m.qos
    /\ p.retain = m.retain

\* C12: scan loop: with the loop flag set, a scan that has ended, whether its
\* discovery succeeded or raised, has published its own request again exactly
\* once, with the same topic, payload, qos and retain, and not before its
\* release loop was over; with the flag unset a scan publishes no request.
C12_ScanLoop ==
    \A w \in Workers :
        IsScan(w) =>
            LET cp == CommandPublications(w)
            IN  IF SCAN_LOOP /\ pc[w] = "done"
                THEN Len(cp) = 1 /\ Republishes(cp[1], msg[w])
                ELSE cp = <<>>

\* C12 witness: a retained scan request whose discovery raised has ended with
\* the loop flag set.
C12_Witness ==
    \E w \in Workers :
        /\ IsScan(w)
        /\ SCAN_LOOP
        /\ pc[w] = "done"
        /\ raised[w] # <<>>
        /\ msg[w].retain
        /\ msg[w].qos = 1

\* the addresses whose semaphores the release loop of lines 252-253 is about
\* to release
Released(w) == {ble_dev_map[k].key : k \in 1..Len(ble_dev_map)}

\* C13: the release of a scan matches its acquisition: the semaphores a scan's
\* finally block releases are exactly those the scan acquired, and the
\* counter of every device semaphore stays at most 1.
C13_ReleaseMatchesAcquire ==
    /\ \A w \in Workers :
          pc[w] = "scan_release" => Released(w) = Range(acquired[w])
    /\ \A k \in 1..Len(ble_dev_map) : ble_dev_map[k].value <= 1

\* scanner.scan of the scan of w has been entered and has not returned
Discovering(w) == pc[w] = "scan"

\* the address of the request of w is outside what the scan of s acquired
OutsideSnapshot(w, s) == SKey(conn[w]) \notin Range(acquired[s])

\* C14 as claimed: snapshot race: while the discovery of a scan is in
\* progress, a device request for an address that is not in the set the scan
\* acquired can go on to register its semaphore, acquire it and run its
\* session.
C14_RunsDuringDiscovery ==
    \A s \in Workers : \A w \in Workers \ {s} :
        (Discovering(s) /\ Requesting(w) /\ OutsideSnapshot(w, s))
            => /\ pc[w] = "map_lock" => ENABLED acquire_map_lock(w)
               /\ pc[w] = "register" => ENABLED register(w)
               /\ pc[w] = "dev_lock" => ENABLED acquire_device(w)

\* C14 as amended: the scan keeps the map lock from its snapshot until
\* scanner.scan has returned or raised, so while the discovery is in progress
\* the set it acquired is the whole map, no request is registering, and no
\* request waits for or is in a session on an address outside that set; a
\* request for a new address waits for the map lock.
C14_NoRegistrationDuringDiscovery ==
    \A s \in Workers :
        Discovering(s) =>
            /\ ble_map_lock = 0
            /\ Released(s) = Range(acquired[s])
            /\ \A w \in Workers \ {s} :
                  /\ pc[w] # "register"
                  /\ (pc[w] = "dev_lock" \/ InSession(w)) => ~OutsideSnapshot(w, s)
                  /\ (Requesting(w) /\ OutsideSnapshot(w, s))
                        => pc[w] = "map_lock" /\ ~ENABLED acquire_map_lock(w)

\* C14 witness: a request for an address that is not in the map waits for
\* the map lock while a discovery is in progress.
C14_Witness ==
    \E s \in Workers : \E w \in Workers \ {s} :
        /\ Discovering(s)
        /\ pc[w] = "map_lock"
        /\ ~HasKey(ble_dev_map, SKey(conn[w]))
        /\ OutsideSnapshot(w, s)

\* the command loop went on to the next command after operation r
Continued(w, r) == idx[w] > r.i

\* C15: ignoreError semantics: the batch continues after a failed operation
\* exactly when the ignoreError of the operation's command is the boolean
\* true; with ignoreError absent or false the failure aborts the batch.
C15_IgnoreErrorTrueOnly ==
    \A w \in Workers :
        \A k \in 1..Len(Operations(w)) :
            LET r == Operations(w)[k]
            IN  r.out = "fail" =>
                    (Continued(w, r) <=> Data(w).commands[r.i].ignoreError = "true")

IsDisconnect(r) == r.op = "disconnect"
\* the disconnects the batch has issued
Disconnects(w) == SelectSeq(radio[w], IsDisconnect)

\* the batch has its connection
Connected(w) ==
    \E k \in 1..Len(radio[w]) : radio[w][k].op = "connect" /\ radio[w][k].out = "ok"

\* a command of the batch aborted it
AbortedByCommand(w) ==
    \/ Aborted(w)
    \/ \E k \in 1..Len(Operations(w)) : Operations(w)[k].out = "fail" /\ ~Continued(w, Operations(w)[k])

\* C16: disconnect only on the success path: a batch that connected issues
\* disconnect exactly once if no command aborted it, then with every result
\* publication already made and its device semaphore still held, and issues
\* no disconnect if a command aborted it or it never connected.
C16_DisconnectOnSuccessOnly ==
    \A w \in Workers :
        LET d == Disconnects(w)
            k == KeyIndex(ble_dev_map, SKey(conn[w]))
        IN  /\ Len(d) <= 1
            /\ d # <<>> =>
                  /\ Connected(w)
                  /\ ~AbortedByCommand(w)
                  /\ Len(trace[w]) = Len(Data(w).commands)
                  /\ DataPublications(w) =
                        ResultPublications(conn[w].name, Data(w).combine, results[w])
                  /\ ~InSession(w)
            /\ (pc[w] = "done" /\ Connected(w) /\ ~AbortedByCommand(w)) => Len(d) = 1
            /\ pc[w] = "disconnect" =>
                  /\ d = <<>>
                  /\ ble_dev_map[k].value = 0

\* C16 witness: of two reads the first failed under ignoreError and the
\* second was stored; the batch has published and disconnected.
C16_Witness ==
    \E w \in Workers :
        /\ pc[w] = "done"
        /\ Len(Disconnects(w)) = 1
        /\ Len(trace[w]) = 2
        /\ trace[w][1].end = "ignored"
        /\ DataPublications(w) # <<>>

\* the messages waiting in the pool's queue or being processed
InFlight == Range(queue) \cup {msg[w] : w \in {v \in Workers : pc[v] # "idle"}}

\* C17: re-submission content: a re-submitted request has the topic, qos and
\* retain of the failed attempt, the same commands and args, and tries
\* exactly one less; tries never increases along a chain of re-submissions;
\* and a request whose tries is absent or at most 1 is never re-submitted.
C17_ResubmissionContent ==
    /\ \A w \in Workers :
          (pc[w] # "idle" /\ ~IsScan(w)) =>
              LET cp == CommandPublications(w)
              IN  /\ Len(cp) <= 1
                  /\ cp # <<>> =>
                        LET old == Data(w)
                            new == cp[1].payload.payload.data
                        IN  /\ cp[1].payload.segment = msg[w].segment
                            /\ cp[1].payload.qos = msg[w].qos
                            /\ cp[1].retain = msg[w].retain
                            /\ cp[1].payload.payload.kind = "object"
                            /\ new.has_commands = old.has_commands
                            /\ new.commands = old.commands
                            /\ new.combine = old.combine
                            /\ old.tries # NoInt
                            /\ old.tries > 1
                            /\ new.tries = old.tries - 1
    /\ \A m \in InFlight :
          (m.payload.kind = "object" /\ Resubmissions(m) > 0) =>
              /\ m.payload.data.tries >= 1
              /\ OriginalTries(m) <= MaxTries

\* C17 witness: a retained request with args and tries = MaxTries has been
\* published again, and the bus has delivered the copy.
C17_Witness ==
    \E w \in Workers :
        /\ pc[w] = "done"
        /\ msg[w].retain
        /\ Data(w).combine = T_all
        /\ Data(w).tries = MaxTries
        /\ CommandPublications(w) # <<>>
        /\ CommandPublications(w)[1].payload \in InFlight

\* the result key the claim gives a command c that resolved to ref: the name,
\* given or resolved, else the handle in hex, else the uuid
ClaimedKey(c, ref) ==
    IF c.name # NoText THEN c.name
    ELSE IF ref.name # NoText THEN ref.name
    ELSE IF ref.handle # NoInt THEN FormatHex02(ref.handle)
    ELSE ref.uuid

\* the result key read off the fields command c itself carries
GivenKey(c) ==
    IF c.name # NoText THEN c.name
    ELSE IF c.handle # NoText THEN FormatHex02(ParseInt(c.handle))
    ELSE c.uuid

HasResult(w, key) == \E j \in 1..Len(results[w]) : results[w][j].key = key

\* C18 as claimed: return-topic key: a stored read is keyed by the name of
\* its characteristic, given or resolved from the catalog, else by the
\* handle in hex, else by the uuid.
C18_KeyPrefersResolvedName ==
    \A w \in Workers :
        \A k \in 1..Len(trace[w]) :
            trace[w][k].end = "stored" =>
                LET key == ClaimedKey(Data(w).commands[trace[w][k].i], trace[w][k].ref)
                IN  trace[w][k].return_topic = key /\ HasResult(w, key)

\* C18 as amended: a stored read is keyed by what its command carries: the
\* name if the command gives one, else the hex of the handle the command
\* gives, else the uuid the command gives; what the catalog resolves does
\* not enter the key.
C18_KeyFromGivenFields ==
    \A w \in Workers :
        \A k \in 1..Len(trace[w]) :
            trace[w][k].end = "stored" =>
                LET key == GivenKey(Data(w).commands[trace[w][k].i])
                IN  trace[w][k].return_topic = key /\ HasResult(w, key)

\* C18 witness: a batch stored a read given by uuid and handle under the
\* handle in hex, and a read given by uuid alone, whose name the catalog
\* resolved, under the uuid.
C18_Witness ==
    \E w \in Workers :
        /\ Len(trace[w]) = 2
        /\ trace[w][1].end = "stored"
        /\ trace[w][2].end = "stored"
        /\ Data(w).commands[1] = Command("readCharacteristic", ByUuidAndHandle, "absent", FALSE)
        /\ Data(w).commands[2] = Command("readCharacteristic", ByUuid, "absent", FALSE)
        /\ trace[w][2].ref.name = T_battery
        /\ HasResult(w, FormatHex02(16))
        /\ HasResult(w, T_uuid1)

\* the worker is processing a unit of work
Busy(w) == pc[w] # "idle"

\* the next step of w is to acquire the map lock or a device semaphore
AtLock(w) ==
    pc[w] \in {"map_lock", "dev_lock", "scan_map_lock", "scan_acquire", "scan_finally"}

\* the unit of work of w can take its next step: it is not at a lock, or the
\* lock it is at can be acquired
CanStep(w) ==
    AtLock(w) =>
        ENABLED (\/ acquire_map_lock(w) \/ acquire_device(w)
                 \/ scan_acquire_map_lock(w) \/ scan_acquire(w) \/ scan_finally(w))

\* C19: deadlock freedom: with every radio primitive and publish returning,
\* the units of work in progress are never all waiting for a lock: while any
\* worker is busy, some busy worker can take its next step.
C19_NoDeadlock ==
    (\E w \in Workers : Busy(w)) => \E w \in Workers : Busy(w) /\ CanStep(w)

\* the unit of work of w is past the `with` blocks of process_commands: in its
\* except clause (error publication and sleep), in the retry backoff of
\* process_message, or returned from both
PastLocks(w) == pc[w] \in {"error", "except", "done"}

\* no lock is held: the map lock and every registered device semaphore are
\* free
NoLockHeld ==
    /\ ble_map_lock = 1
    /\ \A k \in 1..Len(ble_dev_map) : ble_dev_map[k].value = 1

\* C20: device lock released on every exit path: when the one request of the
\* executor has left the `with` blocks of process_commands, by completing, by
\* a failed connect, by an aborting command or by a failed disconnect, the
\* device semaphore it acquired is released and the map lock is free, so no
\* lock is held while it publishes its error, sleeps or backs off; and the
\* semaphore is held for as long as the session is open.
C20_LocksReleasedOnExit ==
    \A w \in Workers :
        /\ PastLocks(w) => NoLockHeld
        /\ InSession(w) =>
              ble_dev_map[KeyIndex(ble_dev_map, SKey(conn[w]))].value = 0

\* C20 witness: a command aborted a connected batch after a stored read, and
\* the unit of work is about to publish the error.
C20_Witness ==
    \E w \in Workers :
        /\ pc[w] = "error"
        /\ Connected(w)
        /\ AbortedByCommand(w)
        /\ results[w] # <<>>
        /\ HasKey(ble_dev_map, SKey(conn[w]))

====
